---- MODULE Spec2Model ----
(***************************************************************************)
(* Model of the audio book menu program: the timed sound segments and the  *)
(* watchdog of SoundObject.py, and the Arrow and Indicator classes of      *)
(* P3.py.                                                                  *)
(*                                                                         *)
(* The specifications share the variables:                                 *)
(*   SpecSound      play / pause / stop_when_done on the pygame music      *)
(*                  device, with the device clock as an explicit variable  *)
(*   SpecArrow      an Arrow under move_up / move_down / toggle_*          *)
(*   SpecIndicator  the two Indicators of a key display under flash / draw *)
(*   SpecLive       SpecSound with the frame loop's and the device's       *)
(*                  progress                                               *)
(*   SpecMain       the frame loop of main(): events, draw, watchdog       *)
(* In each specification the other components stay as constructed.         *)
(***************************************************************************)
EXTENDS Integers, Sequences, FiniteSets, TLC

VARIABLES
    \* ---- SoundObject.py ----
    TARGET_DURATION,   \* module global, -1 when no sound is armed
    musFile,           \* pygame.mixer.music: file loaded ("none" before any load)
    musStart,          \* pygame.mixer.music: start position of the last play(), <<ms, 1000>> = seconds
    musState,          \* pygame.mixer.music: "stopped" | "playing" | "paused"
    musPos,            \* pygame.mixer.music: ms played since the last play() (start offset not included)
    fatal,             \* TRUE once SystemExit has been raised
    \* ---- Arrow (P3.py) ----
    x, y,              \* _x, _y
    y_with_decimal,    \* _y_with_decimal, held exactly in units of 1/num_lines
    top_y, bottom_y, num_lines,
    movement_distance, \* _movement_distance, in units of 1/num_lines
    \* ---- Indicator (P3.py) ----
    remaining_ON_ticks, \* per indicator: _remaining_ON_ticks
    rendered,           \* per indicator: colour of the last draw_text
    \* ---- main() (P3.py) ----
    program_running,   \* loop flag
    selected,          \* TRUE while "Book Reader" is the selected menu item
    events,            \* events of pygame.event.get() not yet handled in this frame
    pc,                \* "loop" | "events" | "watchdog" | "done"
    \* ---- history of the run (observations, never read by the program) ----
    lastOp,            \* name of the last operation called
    lastSeg,           \* segment of the last play()/pause() call
    loadFailed,        \* the load of the last play() call failed
    playedSeg,         \* segment of the last play() that started playback
    prevSeg,           \* segment the device was playing or holding paused when the
                       \* last play() started playback, or "none"
    lastRead,          \* what the last stop_when_done() read from get_pos(), <<>> if it did not read
    stoppedByTick,     \* a watchdog tick stopped playback and no play() succeeded since
    y0, x0,            \* the Arrow's constructor arguments initial_y_pos, initial_x_pos
    nUp, nDown,        \* number of move_up / move_down calls so far
    anySupp, lastSupp, \* some move / the last move was suppressed by its guard
    flashed,           \* per indicator: flash() was called at least once
    drawsSinceFlash    \* per indicator: draw() calls since the last flash() (capped)

soundVars == <<TARGET_DURATION, musFile, musStart, musState, musPos, fatal>>
soundHist == <<lastSeg, loadFailed, playedSeg, prevSeg, lastRead, stoppedByTick>>
arrowVars == <<x, y, y_with_decimal, top_y, bottom_y, num_lines, movement_distance>>
arrowHist == <<y0, x0, nUp, nDown, anySupp, lastSupp>>
indVars   == <<remaining_ON_ticks, rendered>>
indHist   == <<flashed, drawsSinceFlash>>
mainVars  == <<program_running, selected, events, pc>>
vars == <<soundVars, soundHist, arrowVars, arrowHist, indVars, indHist, mainVars, lastOp>>

(***************************************************************************)
(* Sound segments created by main().                                       *)
(***************************************************************************)
S_FILE_FORWARD    == "Forward.ogg"
S_FILE_CH2        == "NormanChapter2Audio.ogg"
S_FILE_NAVPROMPTS == "NavigationPrompts.ogg"

SoundObject(filename_in, start_in, duration_in) ==
    [filename |-> filename_in, start_time |-> start_in, duration |-> duration_in]

forward_sound    == SoundObject(S_FILE_FORWARD, 500, 750)
backward_sound   == SoundObject(S_FILE_FORWARD, 1500, 750)
chapter2_sound   == SoundObject(S_FILE_CH2, 0, 9999999)
mmhelp1_sound    == SoundObject(S_FILE_NAVPROMPTS, 24000, 9000)
mmhelp2_sound    == SoundObject(S_FILE_NAVPROMPTS, 12600, 10900)
bookreader_sound == SoundObject(S_FILE_NAVPROMPTS, 8000, 1500)
headings_sound   == SoundObject(S_FILE_NAVPROMPTS, 10000, 2100)

Segments == {forward_sound, backward_sound, chapter2_sound, mmhelp1_sound,
             mmhelp2_sound, bookreader_sound, headings_sound}

\* no segment: before the first call
NoSegment == [filename |-> "none", start_time |-> 0, duration |-> -1]

(***************************************************************************)
(* The device clock.  pygame.mixer.music.get_pos() is sampled once per     *)
(* frame; the model lets the clock jump between the readings that matter:  *)
(* one below, at and one above every duration, and 0 and 800.              *)
(***************************************************************************)
ClockReadings ==
    {0, 800} \cup UNION {{s.duration - 1, s.duration, s.duration + 1} : s \in Segments}

\* pygame.mixer.music.get_pos(): -1 when no music is playing, else the time
\* played since play(), which does not include the start offset.
get_pos == IF musState = "stopped" THEN -1 ELSE musPos

\* the test of line 65
ExceedsGE(pos, target) == pos >= target
ExceedsLT(pos, target) == pos < target
Exceeds(pos, target) == pos > target

\* the value TARGET_DURATION has after the watchdog stopped the sound (line 69)
DisarmedKeep == TARGET_DURATION
Disarmed == -1

\* the body of stop_when_done()
stop_when_done_body ==
    /\ lastRead' = IF TARGET_DURATION # -1 THEN <<get_pos>> ELSE <<>>
    /\ IF TARGET_DURATION # -1 /\ Exceeds(get_pos, TARGET_DURATION)
       THEN /\ musState' = "stopped"          \* pygame.mixer.music.stop()
            /\ musPos' = 0
            /\ TARGET_DURATION' = Disarmed
            /\ stoppedByTick' = TRUE
       ELSE UNCHANGED <<musState, musPos, TARGET_DURATION, stoppedByTick>>
    /\ UNCHANGED <<musFile, musStart, fatal, lastSeg, loadFailed, playedSeg, prevSeg>>

stop_when_done ==
    /\ ~fatal
    /\ stop_when_done_body
    /\ lastOp' = "stop_when_done"
    /\ UNCHANGED <<arrowVars, arrowHist, indVars, indHist>>
    /\ UNCHANGED mainVars

\* what play() does after a failed load (lines 114-116): SystemExit
LoadFailureContinues == FALSE
LoadFailureIsFatal == TRUE

\* the value play() leaves in TARGET_DURATION (line 122)
play_target_if_unarmed(self) ==
    IF TARGET_DURATION = -1 THEN self.duration ELSE TARGET_DURATION
play_target(self) == self.duration

\* the body of SoundObject.play()
play_body(self, loadOk) ==
    /\ lastSeg' = self
    /\ loadFailed' = ~loadOk
    /\ UNCHANGED lastRead
    /\ IF ~loadOk /\ LoadFailureIsFatal
       THEN /\ fatal' = TRUE
            /\ UNCHANGED <<TARGET_DURATION, musFile, musStart, musState, musPos,
                           playedSeg, prevSeg, stoppedByTick>>
       ELSE /\ musFile' = IF loadOk THEN self.filename ELSE musFile
            /\ musStart' = <<self.start_time, 1000>>   \* start_time/1000 seconds
            /\ musState' = "playing"
            /\ musPos' = 0
            /\ TARGET_DURATION' = play_target(self)
            /\ playedSeg' = self
            /\ prevSeg' = IF musState # "stopped" THEN playedSeg ELSE NoSegment
            /\ stoppedByTick' = FALSE
            /\ UNCHANGED fatal

play(self, loadOk) ==
    /\ ~fatal
    /\ lastOp' = "play"
    /\ play_body(self, loadOk)
    /\ UNCHANGED <<arrowVars, arrowHist, indVars, indHist>>
    /\ UNCHANGED mainVars

\* the value the global TARGET_DURATION has after pause(): pause() has no
\* "global" statement, so line 129 binds a local name and the global keeps
\* its value.
pause_target_global(self) == self.duration
pause_target(self) == TARGET_DURATION

pause(self) ==
    /\ ~fatal
    /\ lastOp' = "pause"
    /\ lastSeg' = self
    /\ musState' = IF musState = "playing" THEN "paused" ELSE musState
    /\ TARGET_DURATION' = pause_target(self)
    /\ UNCHANGED <<musFile, musStart, musPos, fatal>>
    /\ UNCHANGED <<loadFailed, playedSeg, prevSeg, lastRead, stoppedByTick>>
    /\ UNCHANGED <<arrowVars, arrowHist, indVars, indHist>>
    /\ UNCHANGED mainVars

\* The device plays on between two frames: the clock moves to a later
\* reading, one of the set R.
ClockStep(R) ==
    /\ musState = "playing"
    /\ \E e \in R : e > musPos /\ musPos' = e

ClockAdvance ==
    /\ ~fatal
    /\ ClockStep(ClockReadings)
    /\ lastOp' = "clock"
    /\ UNCHANGED <<TARGET_DURATION, musFile, musStart, musState, fatal, soundHist>>
    /\ UNCHANGED <<arrowVars, arrowHist, indVars, indHist>>
    /\ UNCHANGED mainVars

\* The device reaches the end of the file by itself.
MusicEnds ==
    /\ ~fatal
    /\ musState = "playing"
    /\ musState' = "stopped"
    /\ musPos' = 0
    /\ lastOp' = "end"
    /\ UNCHANGED <<TARGET_DURATION, musFile, musStart, fatal, soundHist>>
    /\ UNCHANGED <<arrowVars, arrowHist, indVars, indHist>>
    /\ UNCHANGED mainVars

(***************************************************************************)
(* Arrow.  _y_with_decimal and _movement_distance are Python floats; the   *)
(* model holds them exactly as integers in units of 1/num_lines, so that   *)
(* _movement_distance = (bottom_y - top_y) / num_lines is the integer      *)
(* bottom_y - top_y.  round() is Python 3's round-half-to-even.            *)
(***************************************************************************)
MaxTop     == 1    \* generic arrows: top_y in 0..MaxTop
MaxSpan    == 3    \* generic arrows: bottom_y - top_y in 1..MaxSpan
MaxLines   == 3    \* generic arrows: num_lines in 1..MaxLines
MoveSlack  == 2    \* move_up / move_down are each called at most num_lines + MoveSlack times
MaxToggles == 1    \* x stays within MaxToggles toggles of its initial value

\* round(n / d) for d > 0, half to even
Round(n, d) ==
    LET q == n \div d
        r == n % d
    IN  IF 2 * r < d THEN q
        ELSE IF 2 * r > d THEN q + 1
        ELSE IF q % 2 = 0 THEN q ELSE q + 1

\* line 84, in units of 1/num_lines
MovementDistanceFloorDiv(top, bottom, lines) == ((bottom - top) \div lines) * lines
MovementDistance(top, bottom, lines) == bottom - top

\* Arrow.__init__
ArrowInit(initial_x_pos, initial_y_pos, top, bottom, lines) ==
    /\ x = initial_x_pos
    /\ y = initial_y_pos
    /\ top_y = top
    /\ bottom_y = bottom
    /\ num_lines = lines
    /\ y_with_decimal = initial_y_pos * lines
    /\ movement_distance = MovementDistance(top, bottom, lines)
    /\ y0 = initial_y_pos
    /\ x0 = initial_x_pos
    /\ nUp = 0
    /\ nDown = 0
    /\ anySupp = FALSE
    /\ lastSupp = FALSE

\* the arrow main() constructs (line 252)
MainArrow == ArrowInit(10, 506, 887, 887 + 368, 12)

\* the guards of lines 100 and 108
UpGuardGE(yy, top) == yy >= top
UpGuard(yy, top) == yy > top
DownGuard(yy, bottom) == yy < bottom

\* line 103: the new _y of move_up
UpYStale(yold, ydec, lines) == yold
UpY(yold, ydec, lines) == Round(ydec, lines)

\* line 109: the new _y_with_decimal of move_down
DownAccFromRounded(yold, ydec, dist, lines) == yold * lines + dist
DownAcc(yold, ydec, dist, lines) == ydec + dist

\* lines 114 and 116: the new _x
ToggleLeftXPlus(xx) == xx + 400
ToggleLeftX(xx) == xx - 400
ToggleRightX(xx) == xx + 400

move_up ==
    /\ nUp < num_lines + MoveSlack
    /\ IF UpGuard(y, top_y)
       THEN /\ y_with_decimal' = y_with_decimal - movement_distance
            /\ y' = UpY(y, y_with_decimal', num_lines)
            /\ lastSupp' = FALSE
            /\ UNCHANGED anySupp
       ELSE /\ UNCHANGED <<y, y_with_decimal>>
            /\ lastSupp' = TRUE
            /\ anySupp' = TRUE
    /\ nUp' = nUp + 1
    /\ lastOp' = "move_up"
    /\ UNCHANGED <<x, top_y, bottom_y, num_lines, movement_distance, y0, x0, nDown>>
    /\ UNCHANGED <<soundVars, soundHist, indVars, indHist>>
    /\ UNCHANGED mainVars

move_down ==
    /\ nDown < num_lines + MoveSlack
    /\ IF DownGuard(y, bottom_y)
       THEN /\ y_with_decimal' = DownAcc(y, y_with_decimal, movement_distance, num_lines)
            /\ y' = Round(y_with_decimal', num_lines)
            /\ lastSupp' = FALSE
            /\ UNCHANGED anySupp
       ELSE /\ UNCHANGED <<y, y_with_decimal>>
            /\ lastSupp' = TRUE
            /\ anySupp' = TRUE
    /\ nDown' = nDown + 1
    /\ lastOp' = "move_down"
    /\ UNCHANGED <<x, top_y, bottom_y, num_lines, movement_distance, y0, x0, nUp>>
    /\ UNCHANGED <<soundVars, soundHist, indVars, indHist>>
    /\ UNCHANGED mainVars

toggle_left ==
    /\ x - 400 >= x0 - 400 * MaxToggles
    /\ x' = ToggleLeftX(x)
    /\ lastOp' = "toggle_left"
    /\ UNCHANGED <<y, y_with_decimal, top_y, bottom_y, num_lines, movement_distance>>
    /\ UNCHANGED <<arrowHist, soundVars, soundHist, indVars, indHist>>
    /\ UNCHANGED mainVars

toggle_right ==
    /\ x + 400 <= x0 + 400 * MaxToggles
    /\ x' = ToggleRightX(x)
    /\ lastOp' = "toggle_right"
    /\ UNCHANGED <<y, y_with_decimal, top_y, bottom_y, num_lines, movement_distance>>
    /\ UNCHANGED <<arrowHist, soundVars, soundHist, indVars, indHist>>
    /\ UNCHANGED mainVars

(***************************************************************************)
(* Indicator, and the two indicators of a key display.                     *)
(***************************************************************************)
MaxDraws == 5      \* an indicator is drawn at most MaxDraws times after a flash

Indicators == {"UP", "DOWN"}     \* _UP_indicator, _DOWN_indicator
ticks_in_flash == 2

\* line 138: the countdown after flash()
FlashTicksAdd(remaining) == remaining + ticks_in_flash
FlashTicks(remaining) == ticks_in_flash

\* Indicator.__init__ followed by the draw() of the key display's __init__
IndicatorInit ==
    /\ remaining_ON_ticks = [i \in Indicators |-> 0]
    /\ rendered = [i \in Indicators |-> "off"]
    /\ flashed = [i \in Indicators |-> FALSE]
    /\ drawsSinceFlash = [i \in Indicators |-> 0]

flash(i) ==
    /\ remaining_ON_ticks' = [remaining_ON_ticks EXCEPT ![i] = FlashTicks(@)]
    /\ flashed' = [flashed EXCEPT ![i] = TRUE]
    /\ drawsSinceFlash' = [drawsSinceFlash EXCEPT ![i] = 0]
    /\ UNCHANGED rendered

\* Indicator.draw, as a function of the indicator's state
DrawnColour(remaining) == IF remaining > 0 THEN "on" ELSE "off"
DrawnTicks(remaining) == IF remaining > 0 THEN remaining - 1 ELSE remaining

CanDraw(i) == flashed[i] => drawsSinceFlash[i] < MaxDraws

draw(I) ==
    /\ \A i \in I : CanDraw(i)
    /\ rendered' = [i \in Indicators |->
                      IF i \in I THEN DrawnColour(remaining_ON_ticks[i]) ELSE rendered[i]]
    /\ remaining_ON_ticks' = [i \in Indicators |->
                      IF i \in I THEN DrawnTicks(remaining_ON_ticks[i]) ELSE remaining_ON_ticks[i]]
    /\ drawsSinceFlash' = [i \in Indicators |->
                      IF i \in I /\ flashed[i] THEN drawsSinceFlash[i] + 1 ELSE drawsSinceFlash[i]]
    /\ UNCHANGED flashed

\* KeyDisplay.UP / MainMenuKeys.UP
UP ==
    /\ flash("UP")
    /\ lastOp' = "UP"
    /\ UNCHANGED <<soundVars, soundHist, arrowVars, arrowHist>>
    /\ UNCHANGED mainVars

\* KeyDisplay.DOWN / MainMenuKeys.DOWN
DOWN ==
    /\ flash("DOWN")
    /\ lastOp' = "DOWN"
    /\ UNCHANGED <<soundVars, soundHist, arrowVars, arrowHist>>
    /\ UNCHANGED mainVars

\* Indicator.draw on one indicator
IndicatorDraw ==
    /\ \E i \in Indicators : draw({i})
    /\ lastOp' = "Indicator.draw"
    /\ UNCHANGED <<soundVars, soundHist, arrowVars, arrowHist>>
    /\ UNCHANGED mainVars

\* KeyDisplay.draw / MainMenuKeys.draw: both indicators
KeyDisplayDraw ==
    /\ draw(Indicators)
    /\ lastOp' = "draw"
    /\ UNCHANGED <<soundVars, soundHist, arrowVars, arrowHist>>
    /\ UNCHANGED mainVars

(***************************************************************************)
(* main(): the frame loop.  One frame is: clock.tick and event.get         *)
(* (FrameStart), one step per event of the list (HandleEvent), the drawing *)
(* (DrawEverything) and the watchdog (Watchdog).  lastOp names the event   *)
(* handled.                                                                *)
(***************************************************************************)
MaxEvents == 2     \* pygame.event.get() returns at most MaxEvents events per frame

HelpKeys   == {"K_SEMICOLON", "K_a"}      \* line 305
ToggleKeys == {"K_j", "K_d", "K_k", "K_f"} \* lines 322 and 333
QuitKeys   == {"K_l", "K_s"}              \* line 344
\* K_SPACE stands for the keys no branch names, MOUSEMOTION for the event
\* types that are neither QUIT nor KEYDOWN
EventKinds == HelpKeys \cup ToggleKeys \cup QuitKeys \cup {"QUIT", "K_SPACE", "MOUSEMOTION"}

EventLists == UNION {[1..n -> EventKinds] : n \in 0..MaxEvents}

\* lines 282-284
MainInit ==
    /\ program_running = TRUE
    /\ selected = TRUE
    /\ events = <<>>
    /\ pc = "loop"

\* the clip of lines 306-315 and of lines 323-341
HelpClipSwapped(sel) == IF sel THEN mmhelp2_sound ELSE mmhelp1_sound
HelpClip(sel) == IF sel THEN mmhelp1_sound ELSE mmhelp2_sound
ToggleClipSwapped(sel) == IF sel THEN bookreader_sound ELSE headings_sound
ToggleClip(sel) == IF sel THEN headings_sound ELSE bookreader_sound

\* what the handler of L and S assigns to program_running (line 347)
QuitFlagIgnored == program_running
QuitFlag == FALSE

\* lines 287, 290, 294: the loop test, clock.tick(60), pygame.event.get()
FrameStart ==
    /\ ~fatal
    /\ pc = "loop"
    /\ program_running
    /\ \E evs \in EventLists : events' = evs
    /\ pc' = "events"
    /\ lastOp' = "frame"
    /\ UNCHANGED <<program_running, selected>>
    /\ UNCHANGED <<soundVars, soundHist, arrowVars, arrowHist, indVars, indHist>>

\* line 287: the loop test fails, main() returns
LoopExit ==
    /\ ~fatal
    /\ pc = "loop"
    /\ ~program_running
    /\ pc' = "done"
    /\ lastOp' = "return"
    /\ UNCHANGED <<program_running, selected, events>>
    /\ UNCHANGED <<soundVars, soundHist, arrowVars, arrowHist, indVars, indHist>>

\* lines 295-347: the body of the for loop for one event
HandleEvent ==
    /\ ~fatal
    /\ pc = "events"
    /\ events # <<>>
    /\ LET e == Head(events) IN
        /\ events' = Tail(events)
        /\ lastOp' = e
        /\ \/ /\ e = "QUIT"
              /\ program_running' = FALSE
              /\ UNCHANGED <<selected, x, soundVars, soundHist>>
           \/ /\ e \in HelpKeys
              /\ \E loadOk \in BOOLEAN : play_body(HelpClip(selected), loadOk)
              /\ UNCHANGED <<program_running, selected, x>>
           \/ /\ e \in ToggleKeys
              /\ x' = IF selected THEN ToggleRightX(x) ELSE ToggleLeftX(x)
              /\ \E loadOk \in BOOLEAN : play_body(ToggleClip(selected), loadOk)
              \* SystemExit leaves the handler before the assignment to selected
              /\ selected' = IF fatal' THEN selected ELSE ~selected
              /\ UNCHANGED program_running
           \/ /\ e \in QuitKeys
              /\ program_running' = QuitFlag
              /\ UNCHANGED <<selected, x, soundVars, soundHist>>
           \/ /\ e \in {"K_SPACE", "MOUSEMOTION"}
              /\ UNCHANGED <<program_running, selected, x, soundVars, soundHist>>
    /\ pc' = "events"
    /\ UNCHANGED <<y, y_with_decimal, top_y, bottom_y, num_lines, movement_distance>>
    /\ UNCHANGED <<arrowHist, indVars, indHist>>

\* lines 350-353: key_display.draw() draws the two indicators; the blits,
\* arrow.draw() and the flip change no state of the program
DrawEverything ==
    /\ ~fatal
    /\ pc = "events"
    /\ events = <<>>
    /\ draw(Indicators)
    /\ pc' = "watchdog"
    /\ lastOp' = "draw"
    /\ UNCHANGED <<program_running, selected, events>>
    /\ UNCHANGED <<soundVars, soundHist, arrowVars, arrowHist>>

\* line 356
Watchdog ==
    /\ ~fatal
    /\ pc = "watchdog"
    /\ stop_when_done_body
    /\ pc' = "loop"
    /\ lastOp' = "stop_when_done"
    /\ UNCHANGED <<program_running, selected, events>>
    /\ UNCHANGED <<arrowVars, arrowHist, indVars, indHist>>

\* the segments main() plays, and the clock readings that decide the
\* watchdog's test for them: 0, and each duration and one more
MainSegments == {HelpClip(sel) : sel \in BOOLEAN} \cup {ToggleClip(sel) : sel \in BOOLEAN}
MainClockReadings ==
    {0} \cup UNION {{s.duration, s.duration + 1} : s \in MainSegments}

\* the device, while main() runs
DevicePlays ==
    /\ ~fatal
    /\ pc # "done"
    /\ ClockStep(MainClockReadings)
    /\ lastOp' = "clock"
    /\ UNCHANGED <<TARGET_DURATION, musFile, musStart, musState, fatal, soundHist>>
    /\ UNCHANGED <<arrowVars, arrowHist, indVars, indHist, mainVars>>
DeviceEnds == pc # "done" /\ MusicEnds

(***************************************************************************)
(* Specifications.                                                         *)
(***************************************************************************)
SoundInit ==
    /\ TARGET_DURATION = -1
    /\ musFile = "none"
    /\ musStart = <<0, 1000>>
    /\ musState = "stopped"
    /\ musPos = 0
    /\ fatal = FALSE
    /\ lastSeg = NoSegment
    /\ loadFailed = FALSE
    /\ playedSeg = NoSegment
    /\ prevSeg = NoSegment
    /\ lastRead = <<>>
    /\ stoppedByTick = FALSE

Init ==
    /\ SoundInit
    /\ MainArrow
    /\ IndicatorInit
    /\ MainInit
    /\ lastOp = "init"

Play == \E self \in Segments : \E loadOk \in BOOLEAN : play(self, loadOk)
Pause == \E self \in Segments : pause(self)

Next ==
    \/ Play
    \/ Pause
    \/ stop_when_done
    \/ ClockAdvance
    \/ MusicEnds

Spec == Init /\ [][Next]_vars
SpecSound == Spec

\* The frame loop calls the watchdog once per frame for as long as it runs,
\* and a playing device keeps playing: both steps are taken if they stay
\* possible.
SpecLive == Spec /\ WF_vars(ClockAdvance) /\ WF_vars(stop_when_done)

\* Arrows: the one of main(), the same range entered at its top, and every
\* small arrow that starts inside its range.
ArrowAtTop == ArrowInit(10, 887, 887, 887 + 368, 12)

GenericArrow ==
    \E top \in 0..MaxTop : \E span \in 1..MaxSpan : \E lines \in 1..MaxLines :
        \E start \in top..(top + span) : ArrowInit(10, start, top, top + span, lines)

InitArrow ==
    /\ SoundInit
    /\ (MainArrow \/ ArrowAtTop \/ GenericArrow)
    /\ IndicatorInit
    /\ MainInit
    /\ lastOp = "init"

NextArrow ==
    \/ move_up
    \/ move_down
    \/ toggle_left
    \/ toggle_right

SpecArrow == InitArrow /\ [][NextArrow]_vars

NextIndicator ==
    \/ UP
    \/ DOWN
    \/ IndicatorDraw
    \/ KeyDisplayDraw

SpecIndicator == Init /\ [][NextIndicator]_vars

NextMain ==
    \/ FrameStart
    \/ HandleEvent
    \/ DrawEverything
    \/ Watchdog
    \/ LoopExit
    \/ DevicePlays
    \/ DeviceEnds

SpecMain == Init /\ [][NextMain]_vars

(***************************************************************************)
(* Properties.                                                             *)
(***************************************************************************)
deviceVars == <<musFile, musStart, musState, musPos>>

\* C1: a watchdog tick with a duration d armed and the device e ms into its
\* playback (time since play(), start offset not counted) changes neither
\* the device nor the armed duration when e <= d, and stops the device and
\* sets the armed duration to -1 when e > d.
C1_TickStopsStrictlyAfterDuration ==
    [][ (lastOp' = "stop_when_done" /\ TARGET_DURATION # -1 /\ musState # "stopped")
          => IF musPos > TARGET_DURATION
             THEN musState' = "stopped" /\ TARGET_DURATION' = -1
             ELSE UNCHANGED <<TARGET_DURATION, deviceVars>> ]_vars

\* the segment (500, 750) was stopped by the first tick that read more than 750
C1_Witness ==
    /\ lastOp = "stop_when_done"
    /\ playedSeg = forward_sound
    /\ lastRead = <<751>>
    /\ musState = "stopped"
    /\ TARGET_DURATION = -1

\* C2: a play(B) that starts while the device still holds an earlier segment A
\* leaves B's duration armed and the device playing B from its start; the
\* watchdog then stops playback only beyond the duration of the segment
\* played last.
C2_SecondPlaySupersedes ==
    /\ [](  (lastOp = "play" /\ ~fatal /\ prevSeg # NoSegment)
              => /\ TARGET_DURATION = lastSeg.duration
                 /\ musFile = lastSeg.filename
                 /\ musStart = <<lastSeg.start_time, 1000>>
                 /\ musState = "playing"
                 /\ musPos = 0 )
    /\ [][ (lastOp' = "stop_when_done" /\ musState # "stopped" /\ musState' = "stopped")
              => musPos > playedSeg.duration ]_vars

\* headings_sound (2100) was played over forward_sound (750) and has run 751 ms
C2_Witness ==
    /\ prevSeg = forward_sound
    /\ playedSeg = headings_sound
    /\ lastOp = "stop_when_done"
    /\ lastRead = <<751>>
    /\ musState = "playing"
    /\ TARGET_DURATION = 2100

\* C3: from the tick that stops playback until the next play() that starts
\* playback, nothing is armed and every tick leaves the armed duration and
\* the device as they are; a tick with nothing armed changes neither.
C3_TicksAfterStopAreNoOps ==
    /\ [](stoppedByTick => TARGET_DURATION = -1 /\ musState = "stopped")
    /\ [][ (lastOp' = "stop_when_done" /\ (stoppedByTick \/ TARGET_DURATION = -1))
              => UNCHANGED <<soundVars, stoppedByTick>> ]_vars

\* a tick ran after the stopping tick and found nothing armed
C3_Witness ==
    /\ stoppedByTick
    /\ lastOp = "stop_when_done"
    /\ lastRead = <<>>

C10_LoadFailureIsFatal ==
    /\ [](loadFailed => fatal)
    /\ [][ loadFailed' => UNCHANGED <<TARGET_DURATION, deviceVars>> ]_vars
    /\ [][ ~fatal ]_vars

\* the load of a segment failed while another segment was armed and playing
C10_Witness ==
    /\ fatal
    /\ loadFailed
    /\ musState = "playing"
    /\ TARGET_DURATION # -1
    /\ TARGET_DURATION # lastSeg.duration

\* C5: the rounded y position of an Arrow is always within [top_y, bottom_y].
C5_YWithinRange == top_y <= y /\ y <= bottom_y

\* C6: an Arrow that starts at top_y is at bottom_y after num_lines calls of
\* move_down, and stays there under further calls.
C6_DownToBottom ==
    (y0 = top_y /\ nUp = 0 /\ nDown >= num_lines) => y = bottom_y

\* the range 887..1255 in 12 lines: 12 moves and a 13th
C6_Witness ==
    /\ y0 = top_y
    /\ num_lines = 12
    /\ (bottom_y - top_y) % num_lines # 0
    /\ nUp = 0
    /\ nDown = num_lines + 1
    /\ lastSupp
    /\ y = bottom_y

\* C7: move_up with the rounded position at top_y, and move_down with it at
\* bottom_y, change none of x, the rounded position and the accumulator.
C7_MoveAtBoundIsNoOp ==
    [][ /\ (lastOp' = "move_up" /\ y = top_y) => UNCHANGED <<x, y, y_with_decimal>>
        /\ (lastOp' = "move_down" /\ y = bottom_y) => UNCHANGED <<x, y, y_with_decimal>>
      ]_vars

C7_Witness ==
    /\ lastOp = "move_up"
    /\ lastSupp
    /\ y = top_y
    /\ nDown > 0

Abs(n) == IF n < 0 THEN -n ELSE n

\* C8 (as claimed): after as many move_up as move_down calls, suppressed ones
\* included, the rounded position is within 1 of where it started.
C8_BalancedMovesReturn ==
    (nUp = nDown /\ top_y <= y0 /\ y0 <= bottom_y) => Abs(y - y0) <= 1

\* C8 (amended): the same when none of the moves was suppressed by its guard.
C8_BalancedUnsuppressedMovesReturn ==
    (nUp = nDown /\ ~anySupp /\ top_y <= y0 /\ y0 <= bottom_y) => Abs(y - y0) <= 1

C8_Witness ==
    /\ nUp = nDown
    /\ nUp >= 2
    /\ ~anySupp
    /\ top_y < y0 /\ y0 < bottom_y
    /\ (bottom_y - top_y) % num_lines # 0
    /\ lastOp = "move_up"

\* C9: an indicator's countdown is ticks_in_flash less the draws since its
\* last flash (never below 0; 0 if it never flashed); the draws numbered
\* 1..ticks_in_flash after a flash render "on" and the later ones "off", and
\* an indicator that never flashed renders "off".
C9_FlashLastsNDraws ==
    \A i \in Indicators :
        /\ remaining_ON_ticks[i] =
              IF flashed[i] /\ drawsSinceFlash[i] < ticks_in_flash
              THEN ticks_in_flash - drawsSinceFlash[i] ELSE 0
        /\ (flashed[i] /\ drawsSinceFlash[i] >= 1)
              => rendered[i] = IF drawsSinceFlash[i] <= ticks_in_flash THEN "on" ELSE "off"
        /\ ~flashed[i] => rendered[i] = "off"

\* the draw after the last "on" draw of a flash
C9_Witness ==
    /\ flashed["UP"]
    /\ drawsSinceFlash["UP"] = ticks_in_flash + 1
    /\ rendered["UP"] = "off"
    /\ lastOp = "draw"

\* C13: after pause() of a segment the armed duration is that segment's
\* duration, as it is after play().
C13_PauseArmsOwnDuration ==
    lastOp = "pause" => TARGET_DURATION = lastSeg.duration

\* C15: the rounded position is the rounding of the accumulator in every
\* state; a move that passes its guard steps the accumulator by one
\* movement distance from its own last value and rounds the result, and a
\* suppressed move changes neither.
C15_RoundedFollowsAccumulator ==
    /\ [](y = Round(y_with_decimal, num_lines))
    /\ [][ /\ (lastOp' = "move_down" /\ ~lastSupp')
                => /\ y_with_decimal' = y_with_decimal + movement_distance
                   /\ y' = Round(y_with_decimal', num_lines)
           /\ (lastOp' = "move_up" /\ ~lastSupp')
                => /\ y_with_decimal' = y_with_decimal - movement_distance
                   /\ y' = Round(y_with_decimal', num_lines)
           /\ (lastOp' \in {"move_up", "move_down"} /\ lastSupp')
                => UNCHANGED <<y, y_with_decimal>>
         ]_vars

\* a second move_down from an accumulator that is not a whole number
C15_Witness ==
    /\ lastOp = "move_down"
    /\ ~lastSupp
    /\ nDown >= 2
    /\ y_with_decimal % num_lines # 0
    /\ y * num_lines # y_with_decimal

\* C16: toggle_left and toggle_right move x by -400 and +400 and leave the
\* rest of the arrow as it is; move_up and move_down leave x as it is.
C16_TogglesOnlyMoveX ==
    [][ /\ lastOp' = "toggle_left"
             => x' = x - 400
                /\ UNCHANGED <<y, y_with_decimal, top_y, bottom_y, num_lines, movement_distance>>
        /\ lastOp' = "toggle_right"
             => x' = x + 400
                /\ UNCHANGED <<y, y_with_decimal, top_y, bottom_y, num_lines, movement_distance>>
        /\ lastOp' \in {"move_up", "move_down"} => x' = x
      ]_vars

\* toggle_left has brought x back to where a toggle_right took it from
C16_Witness ==
    /\ lastOp = "toggle_left"
    /\ x = x0
    /\ nDown > 0
    /\ nUp > 0

C14_WatchdogEventuallyStops ==
    /\ (TARGET_DURATION # -1 /\ musState = "playing" /\ lastOp # "play")
          ~> \/ (TARGET_DURATION = -1 /\ musState = "stopped")
             \/ lastOp \in {"play", "pause", "end"}
    /\ [][ (lastOp' = "stop_when_done" /\ musState = "playing")
             => ((musState' = "stopped" /\ TARGET_DURATION' = -1)
                   <=> musPos > playedSeg.duration) ]_vars

\* headings_sound ran until the watchdog read 2101 and stopped it
C14_Witness ==
    /\ playedSeg = headings_sound
    /\ stoppedByTick
    /\ lastRead = <<2101>>
    /\ lastOp = "stop_when_done"
    /\ TARGET_DURATION = -1

\* C11: a D, F, J or K press whose handler runs to its end flips the
\* selection, moves the arrow by 400 towards the item now selected and starts
\* that item's clip: headings_sound (2100) when "Book Reader" was selected,
\* bookreader_sound (1500) otherwise; after the press the armed duration is
\* the one of the item selected.
C11_ToggleKeysFlipMoveAndPlay ==
    /\ [][ (lastOp' \in ToggleKeys /\ ~fatal')
             => /\ selected' = ~selected
                /\ x' = IF selected THEN x + 400 ELSE x - 400
                /\ playedSeg' = IF selected THEN headings_sound ELSE bookreader_sound
                /\ TARGET_DURATION' = IF selected THEN 2100 ELSE 1500
                /\ musState' = "playing"
                /\ musFile' = S_FILE_NAVPROMPTS
                /\ musPos' = 0 ]_vars
    /\ []( (lastOp \in ToggleKeys /\ ~fatal)
             => TARGET_DURATION = IF selected THEN 1500 ELSE 2100 )

\* J pressed on "Book Reader" after an earlier return to it
C11_Witness ==
    /\ lastOp = "K_j"
    /\ ~selected
    /\ x = 410
    /\ TARGET_DURATION = 2100
    /\ prevSeg = bookreader_sound
    /\ musState = "playing"

\* C12: a semicolon or A press never changes the selection or the arrow, and
\* when its handler runs to its end the help clip of the selected item plays
\* and is armed (9000 on "Book Reader", 10900 otherwise); a key no branch
\* names changes none of selection, arrow, armed duration and running flag.
C12_HelpKeysPlayMatchingClip ==
    [][ /\ lastOp' \in HelpKeys => UNCHANGED <<selected, arrowVars>>
        /\ (lastOp' \in HelpKeys /\ ~fatal')
             => /\ TARGET_DURATION' = IF selected THEN 9000 ELSE 10900
                /\ playedSeg' = IF selected THEN mmhelp1_sound ELSE mmhelp2_sound
                /\ musState' = "playing"
                /\ musPos' = 0
        /\ lastOp' = "K_SPACE"
             => UNCHANGED <<selected, arrowVars, TARGET_DURATION, program_running,
                            musFile, musStart, musState, musPos>>
      ]_vars

\* A pressed while "Headings and Topic Sentences" is selected
C12_Witness ==
    /\ lastOp = "K_a"
    /\ ~selected
    /\ x = 410
    /\ TARGET_DURATION = 10900
    /\ playedSeg = mmhelp2_sound
    /\ musState = "playing"

\* C17: handling L, S or the window-close event clears the running flag;
\* once clear it stays clear, no frame is started any more, and the loop
\* only moves on through the rest of the current frame: the remaining
\* events, then the drawing once the list is empty, then the watchdog, then
\* the loop test that ends main().
C17_QuitEndsLoopAfterFrame ==
    /\ [][ lastOp' \in (QuitKeys \cup {"QUIT"}) => ~program_running' ]_vars
    /\ [][ ~program_running
             => /\ ~program_running'
                /\ lastOp' # "frame"
                /\ <<pc, pc'>> \in {<<"events", "events">>, <<"events", "watchdog">>,
                                   <<"watchdog", "watchdog">>, <<"watchdog", "loop">>,
                                   <<"loop", "loop">>, <<"loop", "done">>}
                /\ (pc = "events" /\ pc' = "watchdog") => (events = <<>> /\ lastOp' = "draw")
                /\ (pc = "watchdog" /\ pc' = "loop") => lastOp' = "stop_when_done"
         ]_vars
    /\ [](pc = "done" => ~program_running)

\* a toggle key that followed the quit in the same frame has been handled
C17_Witness ==
    /\ ~program_running
    /\ pc = "events"
    /\ lastOp = "K_k"
    /\ events = <<>>
    /\ ~selected
    /\ playedSeg = headings_sound

\* C18: while main() runs, "Book Reader" is selected exactly when the arrow
\* is at x = 10 and the other item exactly when it is at x = 410; x is
\* never anything else, and x only decreases from 410.
C18_SelectionMatchesArrowX ==
    /\ [](x \in {10, 410})
    /\ [](~fatal => (selected <=> x = 10) /\ (~selected <=> x = 410))
    /\ [][ x' < x => (x = 410 /\ x' = 10) ]_vars

\* back on "Book Reader" after two toggles
C18_Witness ==
    /\ lastOp = "K_d"
    /\ selected
    /\ x = 10
    /\ playedSeg = bookreader_sound
    /\ prevSeg = headings_sound

====
